---- MODULE Spec2Model ----
(***************************************************************************)
(* Model of the video-generation page component `Home` (the operation      *)
(* lifecycle controller): its React state, the interval timer kept in      *)
(* pollTimerRef, the submit request and the status queries in flight.      *)
(*                                                                         *)
(* Scheduling: JavaScript runs one callback at a time.  A step of the      *)
(* model is one callback run to its next await, together with the React    *)
(* commit it causes and the run of the [operationId] effect of that        *)
(* commit.  The submit button is disabled while `submitting` is true, so   *)
(* at most one handleSubmit is in flight.                                  *)
(*                                                                         *)
(* The two route handlers of the generation proxy (POST generate-video,    *)
(* GET operations/[operationId]) are modelled as whole-handler steps over  *)
(* the variable `proxy`, under the specification ProxySpec; the provider   *)
(* library they call is their environment: it returns a value or throws.   *)
(***************************************************************************)
EXTENDS Integers, Sequences, FiniteSets, TLC

\* ------------------------------------------------------------------ bounds
MaxSubmits == 2        \* submissions in one behaviour
MaxStatusCalls == 2    \* status queries issued in one behaviour
MaxPromptLen == 2      \* characters in the prompt text
MaxImages == 5         \* reference images in a request body
MaxHandleLen == 4      \* characters in the path segment of a status request

\* --------------------------------------------------------------- constants
MAX_REFERENCE_IMAGES == 2
NoTimer == 0

Null == "<null>"
Undefined == "<undefined>"

Chars == {" ", "a"}
OperationIds == {"op-1", "op-2"}
RawPayloads == {"raw{done:false}"}
StubMessages == {"stub: no api key"}

\* body of a 200 reply of the status endpoint
StatusPayloads ==
    {"{done:true}", "{done:false}", "{}", "{done:'yes'}", "null"}

VARIABLES
    mounted,          \* the component is mounted
    submitting,       \* useState(false)
    errorMessage,     \* useState<string | null>(null)
    stubMessage,      \* useState<string | null>(null)
    operationId,      \* useState<string | null>(null)
    operationStatus,  \* useState<unknown>(null)
    polling,          \* useState(false)
    pollTimerRef,     \* useRef: id of the interval, NoTimer for null
    timers,           \* live intervals of the page: [id, op], op = closure of poll
    cycle,            \* number of handleSubmit calls so far
    submitReqs,       \* submit requests in flight (the cycle that sent them)
    statusCalls,      \* log of status queries: [op, cycle, outcome]
    proxy             \* the last request handled by a route, and its response

controllerVars == <<mounted, submitting, errorMessage, stubMessage, operationId,
                    operationStatus, polling, pollTimerRef, timers, cycle,
                    submitReqs, statusCalls>>

vars == <<controllerVars, proxy>>

\* ------------------------------------------------------------ pure helpers
RECURSIVE SeqsUpTo(_, _)
SeqsUpTo(S, n) ==
    IF n = 0 THEN {<<>>}
    ELSE LET shorter == SeqsUpTo(S, n - 1)
         IN  shorter \cup {Append(s, c) : s \in {x \in shorter : Len(x) = n - 1}, c \in S}

Prompts == SeqsUpTo(Chars, MaxPromptLen)

IsSpace(c) == c = " "

RECURSIVE TrimStart(_)
TrimStart(s) ==
    IF s # <<>> /\ IsSpace(Head(s)) THEN TrimStart(Tail(s)) ELSE s

RECURSIVE TrimEnd(_)
TrimEnd(s) ==
    IF s # <<>> /\ IsSpace(s[Len(s)]) THEN TrimEnd(SubSeq(s, 1, Len(s) - 1)) ELSE s

\* a trim that leaves its argument alone
TrimNone(s) == s

\* String.prototype.trim
Trim(s) == TrimEnd(TrimStart(s))

\* the images state: one slot per reference image, dataUrl set or undefined
ImageSlots == [1..MAX_REFERENCE_IMAGES -> {Undefined, "data:image"}]

\* images.filter((image) => Boolean(image.dataUrl)).map(...)
ReferenceImages(images) ==
    LET RECURSIVE Keep(_)
        Keep(i) == IF i > MAX_REFERENCE_IMAGES THEN <<>>
                   ELSE IF images[i] # Undefined
                        THEN <<[name |-> i, dataUrl |-> images[i]]>> \o Keep(i + 1)
                        ELSE Keep(i + 1)
    IN  Keep(1)

\* the checks of handleSubmit before its fetch: the message thrown, or Null
ValidationError(prompt, images) ==
    IF Trim(prompt) = <<>> THEN "Prompt is required."
    ELSE IF Len(ReferenceImages(images)) = 0
         THEN "At least one reference image is required."
         ELSE Null

\* a clearInterval that is skipped: the interval stays live
ClearedTimersLeak(ref, tms) == tms

\* clearInterval(pollTimerRef.current)
ClearedTimers(ref, tms) == {t \in tms : t.id # ref}

\* the !operationId branch without its `return`: it falls through to
\* setInterval and leaves a new interval (for no operation) in the ref
CancelEffectNoReturn(ref, tms) ==
    [ref |-> 99,
     timers |-> (IF ref # NoTimer THEN ClearedTimers(ref, tms) ELSE tms)
                \cup {[id |-> 99, op |-> Null]}]

\* the !operationId branch of the [operationId] effect:
\* if (ref.current) { clearInterval(ref.current); ref.current = null }
CancelEffect(ref, tms) ==
    IF ref # NoTimer
    THEN [ref |-> NoTimer, timers |-> ClearedTimers(ref, tms)]
    ELSE [ref |-> ref, timers |-> tms]

\* the cleanup of the mount effect:
\* if (ref.current) { clearInterval(ref.current) }
CancelCleanup(ref, tms) ==
    IF ref # NoTimer
    THEN [ref |-> ref, timers |-> ClearedTimers(ref, tms)]
    ELSE [ref |-> ref, timers |-> tms]

\* a poll that asks for a fixed operation instead of the one it closed over
QueryFixedOp(op, c) == [op |-> "op-1", cycle |-> c, outcome |-> "pending"]

\* the status query sent by poll(): fetch(`/api/operations/${operationId}`)
Query(op, c) == [op |-> op, cycle |-> c, outcome |-> "pending"]

Pending == {i \in 1..Len(statusCalls) : statusCalls[i].outcome = "pending"}


\* ------------------------------------------------- replies of the network
\* what fetch() of the status endpoint can produce
PollReplies ==
    {[kind |-> "reject", status |-> 0, body |-> ""]}
    \cup {[kind |-> "http", status |-> s, body |-> ""] : s \in {500}}
    \cup {[kind |-> "ok", status |-> 200, body |-> b] :
            b \in StatusPayloads \cup {"<malformed>"}}

\* response.json(): the parsed value; the body "null" parses to null
JsonParse(body) == IF body = "null" THEN Null ELSE body

\* the value read by `status.done`
DoneField(status) ==
    CASE status = "{done:true}"  -> "true"
      [] status = "{done:false}" -> "false"
      [] status = "{done:'yes'}" -> "'yes'"
      [] OTHER                   -> Undefined

\* JavaScript truthiness of the value tested by `if (status.done)`
Truthy(v) == v \in {"true", "'yes'"}

\* the reply gets as far as setOperationStatus(status)
PollStores(r) == r.kind = "ok" /\ r.body # "<malformed>"

\* the message of the error caught by poll's catch block, Null if none
PollError(r) ==
    CASE r.kind = "reject"                       -> "Failed to fetch"
      [] r.kind = "http" /\ r.status = 500        -> "Polling failed with 500"
      [] r.kind = "ok" /\ r.body = "<malformed>"  -> "Unexpected end of JSON input"
      [] r.kind = "ok" /\ JsonParse(r.body) = Null
                           -> "Cannot read properties of null (reading 'done')"
      [] OTHER                                    -> Null

\* the reply reaches `if (status.done)` and the test succeeds
PollDone(r) ==
    PollStores(r) /\ PollError(r) = Null /\ Truthy(DoneField(JsonParse(r.body)))

PollOutcome(r) ==
    IF PollError(r) # Null THEN "failed"
    ELSE IF PollDone(r) THEN "done" ELSE "notdone"

\* a poll whose catch block leaves the interval running
PollStopsTimerDoneOnly(r) == PollOutcome(r) = "done"

\* the reply runs `clearInterval(pollTimerRef.current); pollTimerRef.current = null`
PollStopsTimer(r) == PollOutcome(r) \in {"done", "failed"}

\* what fetch() of the submit endpoint can produce
SubmitReplies ==
    {[kind |-> "reject", status |-> 0, error |-> Undefined,
      message |-> "", operationId |-> "", raw |-> ""]}
    \cup {[kind |-> "http", status |-> 400, error |-> "Prompt is required.",
            message |-> "", operationId |-> "", raw |-> ""],
          [kind |-> "http", status |-> 500, error |-> Undefined,
            message |-> "", operationId |-> "", raw |-> ""]}
    \cup {[kind |-> "stub", status |-> 200, error |-> Undefined,
           message |-> m, operationId |-> "", raw |-> ""] : m \in StubMessages}
    \cup {[kind |-> "success", status |-> 200, error |-> Undefined,
           message |-> "", operationId |-> o, raw |-> w] :
            o \in OperationIds, w \in RawPayloads}

\* the message of the error caught by handleSubmit's catch block, Null if none
SubmitError(r) ==
    CASE r.kind = "reject" -> "Failed to fetch"
      [] r.kind = "http" /\ r.error # Undefined -> r.error
      [] r.kind = "http" /\ r.status = 500 -> "Request failed with 500"
      [] OTHER -> Null

\* ------------------------------------------------------ generation proxy
MaxForwardedImages == 4

ImageNames == {"i1", "i2"}
ImageLists == SeqsUpTo(ImageNames, MaxImages)

HandleChars == {"a", "%", "2", "F"}

\* the JSON body of a POST: unparsable, or an object whose prompt and
\* referenceImages may be missing
PostBodies ==
    {[malformed |-> TRUE, hasPrompt |-> FALSE, prompt |-> <<>>,
      hasImages |-> FALSE, images |-> <<>>]}
    \cup {[malformed |-> FALSE, hasPrompt |-> TRUE, prompt |-> p,
           hasImages |-> TRUE, images |-> im] : p \in Prompts, im \in ImageLists}
    \cup {[malformed |-> FALSE, hasPrompt |-> FALSE, prompt |-> <<>>,
           hasImages |-> TRUE, images |-> im] : im \in ImageLists}
    \cup {[malformed |-> FALSE, hasPrompt |-> TRUE, prompt |-> p,
           hasImages |-> FALSE, images |-> <<>>] : p \in Prompts}

\* what `await generateVideoWithGoogle(...)` can do
GenerateOutcomes == {"stub", "success", "throw Error", "throw value"}
\* what `await getOperationStatus(...)` can do: a payload, or a throw
StatusOutcomes == StatusPayloads \cup {"throw Error", "throw value"}

\* a prompt passed on as received
PostPromptUntrimmed(body) == IF body.hasPrompt THEN body.prompt ELSE <<>>

\* (body.prompt ?? "").trim()
PostPrompt(body) == Trim(IF body.hasPrompt THEN body.prompt ELSE <<>>)

\* a slice that keeps the whole array
SliceAll(s, from, to) == s

\* Array.prototype.slice(from, to), 0 <= from <= to
Slice(s, from, to) ==
    SubSeq(s, from + 1, IF to < Len(s) THEN to ELSE Len(s))

\* (body.referenceImages ?? []).slice(0, 4)
PostImages(body) ==
    Slice(IF body.hasImages THEN body.images ELSE <<>>, 0, MaxForwardedImages)

\* the character a percent escape stands for, Undefined when the escape
\* is not a complete UTF-8 sequence (decodeURIComponent throws URIError)
PercentPair(h1, h2) ==
    CASE h1 = "2" /\ h2 = "F" -> "/"
      [] h1 = "2" /\ h2 = "2" -> "dquote"
      [] OTHER -> Undefined

RECURSIVE DecodeURIComponent(_)
DecodeURIComponent(s) ==
    IF s = <<>> THEN [ok |-> TRUE, value |-> <<>>]
    ELSE IF Head(s) # "%"
    THEN LET rest == DecodeURIComponent(Tail(s))
         IN  [ok |-> rest.ok, value |-> <<Head(s)>> \o rest.value]
    ELSE IF Len(s) < 3 \/ PercentPair(s[2], s[3]) = Undefined
    THEN [ok |-> FALSE, value |-> <<>>]
    ELSE LET rest == DecodeURIComponent(SubSeq(s, 4, Len(s)))
         IN  [ok |-> rest.ok, value |-> <<PercentPair(s[2], s[3])>> \o rest.value]

\* the path segments the router hands to the GET handler: percent-encoded
\* text (the router answers a segment it cannot decode itself), or nothing
Handles == {h \in SeqsUpTo(HandleChars, MaxHandleLen) : DecodeURIComponent(h).ok}

\* a handle passed on as received
GetForwardedHandleRaw(h) == h

\* const decodedId = decodeURIComponent(operationId)
GetForwardedHandle(h) == DecodeURIComponent(h).value

NoRequest ==
    [route |-> "none", reqMalformed |-> FALSE, reqHasPrompt |-> FALSE,
     reqPrompt |-> <<>>, reqHasImages |-> FALSE, reqImages |-> <<>>,
     reqHandle |-> <<>>, status |-> 0, shape |-> "none", body |-> "",
     called |-> FALSE, argPrompt |-> <<>>, argImages |-> <<>>, argHandle |-> <<>>,
     outcome |-> ""]

PostRequest(b) ==
    [NoRequest EXCEPT !.route = "POST", !.reqMalformed = b.malformed,
                      !.reqHasPrompt = b.hasPrompt, !.reqPrompt = b.prompt,
                      !.reqHasImages = b.hasImages, !.reqImages = b.images]

GetRequest(h) == [NoRequest EXCEPT !.route = "GET", !.reqHandle = h]

\* an error response sent without its status option: it goes out as 200
ErrorResponseOk(req, code, text) ==
    [req EXCEPT !.status = 200, !.shape = "error", !.body = text]

\* NextResponse.json({ error: text }, { status: code })
ErrorResponse(req, code, text) ==
    [req EXCEPT !.status = code, !.shape = "error", !.body = text]

\* NextResponse.json(result)
ResultResponse(req, result) ==
    [req EXCEPT !.status = 200, !.shape = "result", !.body = result]

\* the whole POST handler of /api/generate-video
POST(b, out) ==
    LET req == PostRequest(b)
        call == [req EXCEPT !.called = TRUE, !.argPrompt = PostPrompt(b),
                            !.argImages = PostImages(b), !.outcome = out]
    IN  /\ proxy.route = "none"
        /\ proxy' =
          IF b.malformed
          THEN ErrorResponse(req, 500, "Unexpected end of JSON input")
          ELSE IF PostPrompt(b) = <<>>
          THEN ErrorResponse(req, 400, "Prompt is required.")
          ELSE IF Len(PostImages(b)) = 0
          THEN ErrorResponse(req, 400, "At least one reference image is required.")
          ELSE CASE out = "stub" ->
                      ResultResponse(call, "{status:'stub',message}")
                 [] out = "success" ->
                      ResultResponse(call, "{status:'success',operationId,raw}")
                 [] out = "throw Error" ->
                      ErrorResponse(call, 500, "provider error message")
                 [] OTHER ->
                      ErrorResponse(call, 500,
                          "Something went wrong generating the video.")

\* the whole GET handler of /api/operations/[operationId]
GET(h, out) ==
    LET req == GetRequest(h)
        call == [req EXCEPT !.called = TRUE, !.argHandle = GetForwardedHandle(h),
                            !.outcome = out]
    IN  /\ proxy.route = "none"
        /\ proxy' =
          IF h = <<>>
          THEN ErrorResponse(req, 400, "operationId is required")
          ELSE IF ~DecodeURIComponent(h).ok
          THEN ErrorResponse(req, 500, "URI malformed")
          ELSE CASE out = "throw Error" ->
                      ErrorResponse(call, 500, "provider error message")
                 [] out = "throw value" ->
                      ErrorResponse(call, 500,
                          "Something went wrong querying operation status.")
                 [] OTHER -> ResultResponse(call, out)

\* the response has been sent: the handlers keep nothing between requests
Respond ==
    /\ proxy.route # "none"
    /\ proxy' = NoRequest

\* ------------------------------------------------------------------- Init
Init ==
    /\ mounted = TRUE
    /\ submitting = FALSE
    /\ errorMessage = Null
    /\ stubMessage = Null
    /\ operationId = Null
    /\ operationStatus = Null
    /\ polling = FALSE
    /\ pollTimerRef = NoTimer
    /\ timers = {}
    /\ cycle = 0
    /\ submitReqs = {}
    /\ statusCalls = <<>>
    /\ proxy = NoRequest

\* ---------------------------------------------------------------- actions
\* handleSubmit up to its first await (or to its end when validation
\* throws), the commit of its state updates and, when operationId changed
\* (to null), the [operationId] effect, whose !operationId branch clears
\* the interval.
HandleSubmit(prompt, images) ==
    /\ mounted
    /\ ~submitting
    /\ cycle < MaxSubmits
    /\ cycle' = cycle + 1
    /\ stubMessage' = Null
    /\ operationId' = Null
    /\ operationStatus' = Null
    /\ IF operationId # Null
       THEN /\ timers' = CancelEffect(pollTimerRef, timers).timers
            /\ pollTimerRef' = CancelEffect(pollTimerRef, timers).ref
       ELSE UNCHANGED <<timers, pollTimerRef>>
    /\ IF ValidationError(prompt, images) # Null
       THEN /\ errorMessage' = ValidationError(prompt, images)
            /\ submitting' = FALSE
            /\ UNCHANGED submitReqs
       ELSE /\ errorMessage' = Null
            /\ submitting' = TRUE
            /\ submitReqs' = submitReqs \cup {cycle'}
    /\ UNCHANGED <<mounted, polling, statusCalls>>

\* the rest of handleSubmit once the submit fetch settles, the commit and,
\* for a `success` reply, the [operationId] effect: setPolling(true), the
\* first poll() and setInterval(poll, 5000).
SubmitReply(c, r) ==
    /\ c \in submitReqs
    /\ submitReqs' = submitReqs \ {c}
    /\ IF ~mounted
       THEN UNCHANGED <<submitting, errorMessage, stubMessage, operationId,
                        operationStatus, polling, pollTimerRef, timers,
                        statusCalls>>
       ELSE /\ submitting' = FALSE
            /\ IF SubmitError(r) # Null
               THEN /\ errorMessage' = SubmitError(r)
                    /\ UNCHANGED <<stubMessage, operationId, operationStatus,
                                   polling, pollTimerRef, timers, statusCalls>>
               ELSE IF r.kind = "stub"
               THEN /\ stubMessage' = r.message
                    /\ UNCHANGED <<errorMessage, operationId, operationStatus,
                                   polling, pollTimerRef, timers, statusCalls>>
               ELSE /\ Len(statusCalls) < MaxStatusCalls
                    /\ operationId' = r.operationId
                    /\ operationStatus' = r.raw
                    /\ polling' = TRUE
                    /\ statusCalls' = Append(statusCalls, Query(r.operationId, c))
                    /\ timers' = timers \cup {[id |-> c, op |-> r.operationId]}
                    /\ pollTimerRef' = c
                    /\ UNCHANGED <<errorMessage, stubMessage>>
    /\ UNCHANGED <<mounted, cycle>>

\* the interval fires: poll() runs up to its fetch
TimerTick(t) ==
    /\ t \in timers
    /\ Len(statusCalls) < MaxStatusCalls
    /\ statusCalls' = Append(statusCalls, Query(t.op, t.id))
    /\ UNCHANGED <<mounted, submitting, errorMessage, stubMessage, operationId,
                   operationStatus, polling, pollTimerRef, timers, cycle,
                   submitReqs>>

\* the rest of poll() once the status fetch of query i settles.  The state
\* setters of an unmounted component do nothing; the ref is still written.
PollReply(i, r) ==
    /\ i \in Pending
    /\ statusCalls' = [statusCalls EXCEPT ![i].outcome = PollOutcome(r)]
    /\ IF PollStopsTimer(r)
       THEN /\ timers' = IF pollTimerRef # NoTimer
                         THEN ClearedTimers(pollTimerRef, timers) ELSE timers
            /\ pollTimerRef' = NoTimer
       ELSE UNCHANGED <<timers, pollTimerRef>>
    /\ IF mounted
       THEN /\ operationStatus' = IF PollStores(r) THEN JsonParse(r.body)
                                  ELSE operationStatus
            /\ polling' = IF PollOutcome(r) \in {"done", "failed"}
                          THEN FALSE ELSE polling
            /\ errorMessage' = IF PollOutcome(r) = "failed"
                               THEN PollError(r) ELSE errorMessage
       ELSE UNCHANGED <<operationStatus, polling, errorMessage>>
    /\ UNCHANGED <<mounted, submitting, stubMessage, operationId, cycle,
                   submitReqs>>

\* the component is torn down: the cleanup of the mount effect runs
Unmount ==
    /\ mounted
    /\ mounted' = FALSE
    /\ timers' = CancelCleanup(pollTimerRef, timers).timers
    /\ pollTimerRef' = CancelCleanup(pollTimerRef, timers).ref
    /\ UNCHANGED <<submitting, errorMessage, stubMessage, operationId,
                   operationStatus, polling, cycle, submitReqs,
                   statusCalls>>

Next ==
    \/ \E p \in Prompts, im \in ImageSlots :
          HandleSubmit(p, im) /\ UNCHANGED proxy
    \/ \E c \in submitReqs, r \in SubmitReplies :
          SubmitReply(c, r) /\ UNCHANGED proxy
    \/ \E t \in timers : TimerTick(t) /\ UNCHANGED proxy
    \/ \E i \in Pending, r \in PollReplies :
          PollReply(i, r) /\ UNCHANGED proxy
    \/ Unmount /\ UNCHANGED proxy

Spec == Init /\ [][Next]_vars

ProxyNext ==
    \/ \E b \in PostBodies, out \in GenerateOutcomes :
          POST(b, out) /\ UNCHANGED controllerVars
    \/ \E h \in Handles, out \in StatusOutcomes :
          GET(h, out) /\ UNCHANGED controllerVars
    \/ Respond /\ UNCHANGED controllerVars

\* the route handlers alone, one request at a time
ProxySpec == Init /\ [][ProxyNext]_vars

TypeOK ==
    /\ mounted \in BOOLEAN /\ submitting \in BOOLEAN /\ polling \in BOOLEAN
    /\ cycle \in 0..MaxSubmits
    /\ pollTimerRef \in 0..MaxSubmits
    /\ submitReqs \subseteq 1..MaxSubmits
    /\ Len(statusCalls) <= MaxStatusCalls

\* ------------------------------------------------ vocabulary of the claims
\* query i gets its reply in this step, with the given outcome
Replied(i, outcome) ==
    /\ i \in Pending
    /\ statusCalls'[i].outcome = outcome

\* a status query is issued in this step
Issued == Len(statusCalls') > Len(statusCalls)
NewQuery == statusCalls'[Len(statusCalls')]

\* handleSubmit starts in this step
SubmitBegins == cycle' = cycle + 1

\* the prompt is empty or whitespace only
BlankPrompt(p) == \A k \in 1..Len(p) : p[k] = " "
\* no slot holds an image
NoImages(im) == \A k \in 1..MAX_REFERENCE_IMAGES : im[k] = Undefined

ValidationMessages ==
    {"Prompt is required.", "At least one reference image is required."}

QueriesOfCycle(c) == {i \in 1..Len(statusCalls) : statusCalls[i].cycle = c}

\* ------------------------------------------------------------------ claims

\* C1: in every reachable state at most one status query is outstanding.
C1_AtMostOneOutstanding == Cardinality(Pending) <= 1

\* C2: a status reply that arrives after its polling cycle was cancelled (a
\* later submit began, or the component was torn down) changes none of
\* operationStatus, errorMessage, polling and the active timer.
C2_StaleReplyDiscarded ==
    [][\A i \in Pending :
          ((\E o \in {"notdone", "done", "failed"} : Replied(i, o))
             /\ (statusCalls[i].cycle # cycle \/ ~mounted))
          => UNCHANGED <<operationStatus, errorMessage, polling, pollTimerRef, timers>>]_vars

\* C3: when a reply with done of the polled operation is received, the
\* controller is Completed (polling false, no error), the interval is
\* cleared, and no status query of that submission is issued afterwards.
C3_DoneCompletes ==
    [][/\ \A i \in Pending :
            (Replied(i, "done") /\ mounted /\ statusCalls[i].cycle = cycle)
            => /\ polling' = FALSE
               /\ errorMessage' = Null
               /\ pollTimerRef' = NoTimer
               /\ timers' = {}
       /\ Issued => \A j \in QueriesOfCycle(NewQuery.cycle) :
                        statusCalls[j].outcome # "done"]_vars

\* C4: when a status query fails, the interval is cleared, the controller
\* is Failed with the error message (polling false), and no status query of
\* that submission is issued afterwards: the failed query is not retried.
C4_PollFailureStops ==
    [][/\ \A i \in Pending, r \in PollReplies :
            (PollReply(i, r) /\ mounted /\ PollError(r) # Null)
            => /\ pollTimerRef' = NoTimer
               /\ timers' = {}
               /\ polling' = FALSE
               /\ errorMessage' = PollError(r)
               /\ statusCalls'[i].outcome = "failed"
       /\ Issued => \A j \in QueriesOfCycle(NewQuery.cycle) :
                        statusCalls[j].outcome # "failed"]_vars

\* a status query of the current submission has failed and polling stopped
C4_Witness ==
    /\ mounted
    /\ \E i \in QueriesOfCycle(cycle) : statusCalls[i].outcome = "failed"
    /\ errorMessage = "Polling failed with 500"
    /\ ~polling /\ timers = {} /\ operationId # Null

\* C5: when a status query fails, the stored operationId is discarded.
C5_FailureDiscardsOperationId ==
    [][\A i \in Pending : (Replied(i, "failed") /\ mounted)
                          => operationId' = Null]_vars

\* C6: a submit whose prompt is blank, or which has no reference image,
\* ends Failed with a validation message and makes no network call, to
\* the submit endpoint or the status endpoint, and leaves no timer to make one.
C6_InvalidSubmitNoNetwork ==
    [][SubmitBegins =>
        \A p \in Prompts, im \in ImageSlots :
          ((BlankPrompt(p) \/ NoImages(im)) /\ HandleSubmit(p, im))
          => /\ errorMessage' \in ValidationMessages
             /\ submitting' = FALSE
             /\ submitReqs' = submitReqs
             /\ statusCalls' = statusCalls
             /\ timers' = {}]_vars

\* an invalid submit made while the previous operation was being polled
C6_Witness ==
    /\ cycle = 2 /\ submitReqs = {}
    /\ polling /\ operationId = Null
    /\ errorMessage \in ValidationMessages
    /\ ~submitting /\ timers = {}
    /\ Pending # {}

\* C7: when a submit begins, the interval is cancelled in the same step, and
\* every status query issued belongs to the latest submit: none is issued
\* for the operation of an earlier one.
C7_SubmitCancelsTimer ==
    [][/\ SubmitBegins => (timers' = {} /\ pollTimerRef' = NoTimer)
       /\ Issued => NewQuery.cycle = cycle']_vars

\* a second submit began while the first operation was being polled
C7_Witness ==
    /\ cycle = 2 /\ submitting /\ polling
    /\ operationId = Null /\ timers = {}
    /\ QueriesOfCycle(1) # {}

\* C8: a submit resets the lifecycle state: operationId, operationStatus,
\* errorMessage and stubMessage are cleared and the polling flag of the
\* previous operation is off.
C8_SubmitResets ==
    [][SubmitBegins
         => /\ operationId' = Null
            /\ operationStatus' = Null
            /\ stubMessage' = Null
            /\ errorMessage' \in {Null} \cup ValidationMessages
            /\ submitting' => errorMessage' = Null
            /\ polling' = FALSE]_vars

\* C9: a stub reply leaves the controller Completed (not submitting, polling
\* false, no error) with the message stored, no operationId, no timer and
\* no status query for that submission.
C9_StubCompletes ==
    [][\A c \in submitReqs, r \in SubmitReplies :
          (SubmitReply(c, r) /\ mounted /\ r.kind = "stub")
          => /\ stubMessage' = r.message
             /\ submitting' = FALSE /\ polling' = FALSE /\ errorMessage' = Null
             /\ operationId' = Null
             /\ pollTimerRef' = NoTimer /\ timers' = {}
             /\ QueriesOfCycle(c) = {}]_vars

\* C10: a success reply stores its operationId and its raw status, turns
\* polling on, starts the interval and sends the first status query; every
\* status query issued carries the stored operationId.
C10_DeferredStartsPolling ==
    [][/\ \A c \in submitReqs, r \in SubmitReplies :
            (SubmitReply(c, r) /\ mounted /\ r.kind = "success")
            => /\ operationId' = r.operationId
               /\ operationStatus' = r.raw
               /\ polling' = TRUE /\ submitting' = FALSE
               /\ pollTimerRef' = c
               /\ timers' = {[id |-> c, op |-> r.operationId]}
               /\ Issued
       /\ Issued => (NewQuery.op = operationId' /\ NewQuery.outcome = "pending")]_vars

\* the second operation, with another id than the first, is being polled
C10_Witness ==
    /\ cycle = 2 /\ polling /\ ~submitting
    /\ operationId = "op-2"
    /\ operationStatus \in RawPayloads
    /\ timers = {[id |-> 2, op |-> "op-2"]}
    /\ \E i \in QueriesOfCycle(1) : statusCalls[i].op = "op-1"
    /\ \E i \in QueriesOfCycle(2) : statusCalls[i].op = "op-2"

\* ----------------------------------------------------- lifecycle phases
\* the terminal phases, read off the state the page renders
Completed ==
    /\ ~submitting /\ ~polling /\ errorMessage = Null
    /\ (stubMessage # Null \/ operationId # Null)
Failed == ~submitting /\ errorMessage # Null

\* C11: once the controller is Completed or Failed, phase, operationId,
\* operationStatus and errorMessage do not change until a submit begins.
C11_TerminalIsStable ==
    [][((Completed \/ Failed) /\ mounted /\ ~SubmitBegins)
         => UNCHANGED <<submitting, polling, errorMessage, stubMessage,
                        operationId, operationStatus>>]_vars

\* C16: a status payload counts as complete only when its done field is the
\* boolean true; a payload whose done is missing or not a boolean is "not
\* yet complete": polling goes on, the controller does not fail.
C16_OnlyBooleanDoneCompletes ==
    [][\A i \in Pending, r \in PollReplies :
          (PollReply(i, r) /\ mounted /\ r.kind = "ok"
             /\ r.body \in StatusPayloads /\ r.body # "{done:true}")
          => /\ statusCalls'[i].outcome = "notdone"
             /\ UNCHANGED <<polling, errorMessage, pollTimerRef, timers>>]_vars

\* C18: while operation X is polled, a reply that belongs to an earlier,
\* cancelled submission never stops the timer of X, so that polling of X
\* runs on until a reply for X ends it.
C18_StaleReplyKeepsTimer ==
    [][\A i \in Pending :
          ((\E o \in {"notdone", "done", "failed"} : Replied(i, o))
             /\ mounted /\ statusCalls[i].cycle # cycle /\ timers # {})
          => UNCHANGED <<timers, pollTimerRef, polling>>]_vars

\* C19: while the component is mounted, the polling flag is true only with
\* an operationId stored and its interval live, and with no interval live
\* and no submission in progress the polling flag is false.
C19_PollingAgreesWithTimer ==
    mounted =>
      /\ polling => /\ operationId # Null
                    /\ pollTimerRef # NoTimer
                    /\ timers = {[id |-> pollTimerRef, op |-> operationId]}
      /\ (timers = {} /\ ~submitting) => ~polling

\* C20: at most one interval is live at a time, an interval is created only
\* when none is live, and after teardown no interval is live and no status
\* query is issued.
C20_NoTimerLeak ==
    /\ [](Cardinality(timers) <= 1 /\ (~mounted => timers = {}))
    /\ [][/\ (timers' \ timers # {}) => timers = {}
          /\ ~mounted => ~Issued]_vars

\* torn down while an operation was being polled, its first query still
\* unanswered, after an earlier operation had been replaced
C20_Witness ==
    /\ ~mounted /\ timers = {} /\ pollTimerRef = 2
    /\ polling /\ operationId # Null
    /\ QueriesOfCycle(1) # {} /\ QueriesOfCycle(2) \cap Pending # {}

\* C12: cancel is idempotent.  In every reachable state, running the
\* timer-clearing path (of the effect, or of the unmount cleanup) twice
\* gives what running it once gives, and with no timer active it changes
\* nothing; a submit or a teardown that finds no timer leaves none.
C12_CancelIdempotent ==
    /\ [](LET here == [ref |-> pollTimerRef, timers |-> timers]
              e1 == CancelEffect(pollTimerRef, timers)
              c1 == CancelCleanup(pollTimerRef, timers)
          IN  /\ CancelEffect(e1.ref, e1.timers) = e1
              /\ CancelCleanup(c1.ref, c1.timers) = c1
              /\ CancelCleanup(e1.ref, e1.timers) = e1
              /\ (pollTimerRef = NoTimer /\ timers = {}) => (e1 = here /\ c1 = here))
    /\ [][((SubmitBegins \/ mounted' # mounted) /\ timers = {})
            => (timers' = {} /\ pollTimerRef' = pollTimerRef)]_vars

\* a submit cancelled the timer of a polled operation, then the teardown
\* cancelled again
C12_Witness ==
    /\ ~mounted /\ cycle = 2 /\ polling
    /\ operationId = Null /\ pollTimerRef = NoTimer /\ timers = {}
    /\ QueriesOfCycle(1) # {}

\* ------------------------------------------------- claims about the proxy
\* the request handled had no prompt, or a prompt of white space only
BlankRequest == ~proxy.reqHasPrompt \/ BlankPrompt(proxy.reqPrompt)
\* the request handled had no image list, or an empty one
NoImagesRequest == ~proxy.reqHasImages \/ proxy.reqImages = <<>>
ProviderThrew == proxy.called /\ proxy.outcome \in {"throw Error", "throw value"}

PostValidationTexts ==
    {"Prompt is required.", "At least one reference image is required."}

\* C13: POST answers a request whose prompt is blank after trimming, or
\* whose image list is empty, with 400 and an error text and does not call
\* the provider; the provider is called only for requests that pass both checks.
C13_PostRejectsInvalid ==
    (proxy.route = "POST" /\ ~proxy.reqMalformed) =>
      /\ (BlankRequest \/ NoImagesRequest)
           => /\ proxy.status = 400
              /\ proxy.shape = "error"
              /\ proxy.body \in PostValidationTexts
              /\ ~proxy.called
      /\ proxy.called => (~BlankRequest /\ ~NoImagesRequest)

\* a whitespace-only prompt, sent with two images, was rejected
C13_Witness ==
    /\ proxy.route = "POST" /\ proxy.reqPrompt = <<" ", " ">>
    /\ Len(proxy.reqImages) = 2
    /\ proxy.status = 400 /\ ~proxy.called

C15_FailuresAreErrorResponses ==
    proxy.route # "none" =>
      /\ proxy.status \in {200, 400, 500}
      /\ proxy.shape = "error" <=> proxy.status \in {400, 500}
      /\ proxy.shape = "result" <=> proxy.status = 200
      /\ proxy.status = 200 => (proxy.called /\ ~ProviderThrew)
      /\ (proxy.reqMalformed \/ ProviderThrew
            \/ (proxy.route = "POST" /\ (BlankRequest \/ NoImagesRequest))
            \/ (proxy.route = "GET" /\ proxy.reqHandle = <<>>))
           => (proxy.shape = "error" /\ proxy.status \in {400, 500})

\* the provider threw something that is not an Error: 500 with the default text
C15_Witness ==
    /\ proxy.route = "POST" /\ proxy.called
    /\ proxy.outcome = "throw value"
    /\ proxy.status = 500 /\ proxy.shape = "error"
    /\ proxy.body = "Something went wrong generating the video."

\* C17: POST passes to the provider the first min(n, 4) of the n images of
\* the request, in their order, with the trimmed prompt.
C17_PostForwardsFirstFour ==
    (proxy.route = "POST" /\ proxy.called) =>
      /\ Len(proxy.argImages) =
           (IF Len(proxy.reqImages) < MaxForwardedImages
            THEN Len(proxy.reqImages) ELSE MaxForwardedImages)
      /\ \A k \in 1..Len(proxy.argImages) : proxy.argImages[k] = proxy.reqImages[k]
      /\ proxy.argPrompt = Trim(proxy.reqPrompt)
      /\ proxy.argPrompt # <<>>

\* five images and a prompt with a leading blank: four images and the
\* trimmed prompt reached the provider
C17_Witness ==
    /\ proxy.route = "POST" /\ proxy.called
    /\ Len(proxy.reqImages) = 5 /\ proxy.reqImages[5] # proxy.reqImages[4]
    /\ Len(proxy.argImages) = 4
    /\ proxy.reqPrompt = <<" ", "a">> /\ proxy.argPrompt = <<"a">>

====
